---- MODULE Spec2Model ----
(***************************************************************************)
(* Conflict resolution of JSON patches: resolveConflicts,                  *)
(* generateResolvedPatch and initializeResolutions, with the helper        *)
(* findMatchingPatch.  The functions are pure: Init draws the patches and  *)
(* the conflicts, and each action is one call, which draws the resolutions *)
(* and the custom resolutions it is made with.                             *)
(***************************************************************************)
EXTENDS Naturals, Sequences, FiniteSets

\* ------------------------------------------------------------------ bounds
MaxPatches == 2
MaxResolutions == 1
MaxCustom == 1

\* ------------------------------------------------------------- data types
Paths == {"/a", "/b"}
Hashes == {"h1", "h2"}
PatchOperation == {"add", "remove", "replace"}

\* type Patch = { op, path, value?, hash }.  No function reads op or value;
\* the candidate patches drawn are replace patches.
Patch == [op : {"replace"}, path : Paths, hash : Hashes]

\* type ConflictResolution = { path, selectedHash }
ConflictResolution == [path : Paths, selectedHash : Hashes]

\* type CustomConflictResolution = { path, patch }: a caller-fabricated patch
\* with a content hash of its own.
CustomConflictResolution ==
    {[path |-> p, patch |-> [op |-> "add", path |-> p, hash |-> "hc"]] :
        p \in Paths}

\* ---------------------------------------------------------------- helpers
Range(s) == {s[i] : i \in 1..Len(s)}

SeqUpTo(S, n) == UNION {[1..k -> S] : k \in 0..n}

\* type ConflictDetail = { path, options }: the options are the hashes of the
\* competing patches, each listed once, in any order.
OptionLists ==
    {o \in SeqUpTo(Hashes, Cardinality(Hashes)) :
        \A i, j \in 1..Len(o) : o[i] = o[j] => i = j}

ConflictDetail == [path : Paths, options : OptionLists]

\* Conflict lists hold up to one entry per path; entries may repeat a path.
ConflictLists == SeqUpTo(ConflictDetail, Cardinality(Paths))

\* Array.prototype.find: the first element of s among those at the indices
\* hits (the ones satisfying the predicate), as a list of zero (undefined) or
\* one element.
find(s, hits) ==
    IF hits = {}
    THEN <<>>
    ELSE <<s[CHOOSE i \in hits : \A j \in hits : i <= j]>>

\* SetAdd with an array in place of the Set
SetAdd_array(s, x) == Append(s, x)

\* Set.prototype.add on an insertion-ordered Set
SetAdd(s, x) == IF x \in Range(s) THEN s ELSE Append(s, x)

RECURSIVE SetAddAll(_, _)
SetAddAll(s, xs) ==
    IF xs = <<>> THEN s ELSE SetAddAll(SetAdd(s, Head(xs)), Tail(xs))

\* Array.prototype.flat
RECURSIVE flat(_)
flat(groups) ==
    IF groups = <<>> THEN <<>> ELSE Head(groups) \o flat(Tail(groups))

\* ------------------------------------------------------ findMatchingPatch
findMatchingPatch(patches, optionHash) ==
    find(patches, {i \in 1..Len(patches) : patches[i].hash = optionHash})

\* resolutions.find(res => res.path === conflict.path)
findResolution(resolutions, conflict) ==
    find(resolutions,
         {i \in 1..Len(resolutions) : resolutions[i].path = conflict.path})

\* ------------------------------------------------------- resolveConflicts
\* selectedPatch without the default for a resolution outside the options
selectedPatch_noDefaultWhenIgnored(patches, conflict, resolutions) ==
    LET resolution == findResolution(resolutions, conflict)
    IN IF resolution # <<>>
       THEN IF resolution[1].selectedHash \in Range(conflict.options)
            THEN findMatchingPatch(patches, resolution[1].selectedHash)
            ELSE <<>>
       ELSE IF Len(conflict.options) > 0
            THEN findMatchingPatch(patches, conflict.options[1])
            ELSE <<>>

\* selectedPatch that never consults the resolutions
selectedPatch_alwaysFirst(patches, conflict, resolutions) ==
    IF Len(conflict.options) > 0
    THEN findMatchingPatch(patches, conflict.options[1])
    ELSE <<>>

\* selectedPatch that looks the selected patch up by the resolution's path
selectedPatch_byPath(patches, conflict, resolutions) ==
    LET resolution == findResolution(resolutions, conflict)
        atPath == {i \in 1..Len(patches) : patches[i].path = resolution[1].path}
    IN IF resolution # <<>>
          /\ resolution[1].selectedHash \in Range(conflict.options)
       THEN find(patches, atPath)
       ELSE IF Len(conflict.options) > 0
            THEN findMatchingPatch(patches, conflict.options[1])
            ELSE <<>>

\* selectedPatch that falls back to the first option when the lookup of the
\* selected hash fails
selectedPatch_defaultOnMiss(patches, conflict, resolutions) ==
    LET resolution == findResolution(resolutions, conflict)
        default == IF Len(conflict.options) > 0
                   THEN findMatchingPatch(patches, conflict.options[1])
                   ELSE <<>>
    IN IF resolution # <<>>
          /\ resolution[1].selectedHash \in Range(conflict.options)
       THEN IF findMatchingPatch(patches, resolution[1].selectedHash) # <<>>
            THEN findMatchingPatch(patches, resolution[1].selectedHash)
            ELSE default
       ELSE default

\* The body of conflicts.forEach: what one conflict adds to includedPatches,
\* as a list of zero or one patch.
selectedPatch(patches, conflict, resolutions) ==
    LET resolution == findResolution(resolutions, conflict)
    IN IF resolution # <<>>
          /\ resolution[1].selectedHash \in Range(conflict.options)
       THEN findMatchingPatch(patches, resolution[1].selectedHash)
       ELSE IF Len(conflict.options) > 0
            THEN findMatchingPatch(patches, conflict.options[1])
            ELSE <<>>

RECURSIVE includedPatches(_, _, _)
includedPatches(patches, conflicts, resolutions) ==
    IF conflicts = <<>> THEN <<>>
    ELSE LET front == SubSeq(conflicts, 1, Len(conflicts) - 1)
             last == conflicts[Len(conflicts)]
         IN SetAddAll(includedPatches(patches, front, resolutions),
                      selectedPatch(patches, last, resolutions))

conflictPaths(conflicts) == {conflicts[i].path : i \in 1..Len(conflicts)}

nonConflictPatches(patches, conflicts) ==
    LET Keep(patch) == patch.path \notin conflictPaths(conflicts)
    IN SelectSeq(patches, Keep)

customPatches(customResolutions) ==
    [i \in 1..Len(customResolutions) |-> customResolutions[i].patch]

\* resolveConflicts without the early return
resolveConflicts_noEarlyReturn(patches, conflicts, resolutions, customResolutions) ==
    nonConflictPatches(patches, conflicts)
        \o includedPatches(patches, conflicts, resolutions)
        \o customPatches(customResolutions)

\* resolveConflicts where a custom resolution replaces the patch chosen for
\* its path instead of joining it
resolveConflicts_customOverrides(patches, conflicts, resolutions, customResolutions) ==
    IF Len(conflicts) = 0
    THEN patches
    ELSE LET chosen == includedPatches(patches, conflicts, resolutions)
             Taken(cr) == \E i \in 1..Len(chosen) : chosen[i].path = cr.path
             Free(cr) == ~Taken(cr)
         IN nonConflictPatches(patches, conflicts)
            \o chosen
            \o customPatches(SelectSeq(customResolutions, Free))

resolveConflicts(patches, conflicts, resolutions, customResolutions) ==
    IF Len(conflicts) = 0
    THEN patches
    ELSE nonConflictPatches(patches, conflicts)
         \o includedPatches(patches, conflicts, resolutions)
         \o customPatches(customResolutions)

\* -------------------------------------------------- generateResolvedPatch
\* unresolvedHashes that leaves out the option the merge applies by default
RECURSIVE unresolvedHashes_unusedOnly(_, _)
unresolvedHashes_unusedOnly(conflicts, resolutions) ==
    IF conflicts = <<>> THEN <<>>
    ELSE LET front == SubSeq(conflicts, 1, Len(conflicts) - 1)
             last == conflicts[Len(conflicts)]
             sofar == unresolvedHashes_unusedOnly(front, resolutions)
         IN IF findResolution(resolutions, last) = <<>> /\ last.options # <<>>
            THEN SetAddAll(sofar, Tail(last.options))
            ELSE sofar

RECURSIVE unresolvedHashes(_, _)
unresolvedHashes(conflicts, resolutions) ==
    IF conflicts = <<>> THEN <<>>
    ELSE LET front == SubSeq(conflicts, 1, Len(conflicts) - 1)
             last == conflicts[Len(conflicts)]
             sofar == unresolvedHashes(front, resolutions)
         IN IF findResolution(resolutions, last) = <<>>
            THEN SetAddAll(sofar, last.options)
            ELSE sofar

generateResolvedPatch(patches, conflicts, resolutions, customResolutions) ==
    LET allPatches == flat(patches)
    IN IF Len(allPatches) = 0
       THEN [unresolvedConflicts |-> <<>>, resolvedPatches |-> <<>>]
       ELSE IF Len(conflicts) = 0
       THEN [unresolvedConflicts |-> <<>>, resolvedPatches |-> allPatches]
       ELSE [unresolvedConflicts |-> unresolvedHashes(conflicts, resolutions),
             resolvedPatches |-> resolveConflicts(allPatches, conflicts,
                                                  resolutions, customResolutions)]

\* -------------------------------------------------- initializeResolutions
\* initializeResolutions that selects the last option
initializeResolutions_lastOption(conflicts) ==
    LET HasOption(conflict) == Len(conflict.options) > 0
        kept == SelectSeq(conflicts, HasOption)
    IN [i \in 1..Len(kept) |->
           [path |-> kept[i].path,
            selectedHash |-> kept[i].options[Len(kept[i].options)]]]

initializeResolutions(conflicts) ==
    LET HasOption(conflict) == Len(conflict.options) > 0
        kept == SelectSeq(conflicts, HasOption)
    IN [i \in 1..Len(kept) |->
           [path |-> kept[i].path, selectedHash |-> kept[i].options[1]]]

\* ------------------------------------------------------------------ state
VARIABLES
    patches,            \* the flattened patches of all groups
    conflicts,          \* conflicts: list of ConflictDetail
    resolutions,        \* resolutions argument of the call made
    customResolutions,  \* customResolutions argument of the call made
    called,             \* the function whose return value the state holds
    merged,             \* return value of resolveConflicts
    generated,          \* return value of generateResolvedPatch
    defaults            \* return value of initializeResolutions

vars == <<patches, conflicts, resolutions, customResolutions,
          called, merged, generated, defaults>>

NoResult == [unresolvedConflicts |-> <<>>, resolvedPatches |-> <<>>]

\* Two contributors: every split of a patch list into two groups.
PatchGroups(p) ==
    {<<SubSeq(p, 1, k), SubSeq(p, k + 1, Len(p))>> : k \in 0..Len(p)}

Init ==
    /\ patches \in SeqUpTo(Patch, MaxPatches)
    /\ conflicts \in ConflictLists
    /\ resolutions = <<>>
    /\ customResolutions = <<>>
    /\ called = "none"
    /\ merged = <<>>
    /\ generated = NoResult
    /\ defaults = <<>>

ResolveConflicts ==
    /\ called = "none"
    /\ \E r \in SeqUpTo(ConflictResolution, MaxResolutions),
          c \in SeqUpTo(CustomConflictResolution, MaxCustom) :
          /\ resolutions' = r
          /\ customResolutions' = c
          /\ merged' = resolveConflicts(patches, conflicts, r, c)
    /\ called' = "resolveConflicts"
    /\ UNCHANGED <<patches, conflicts, generated, defaults>>

GenerateResolvedPatch ==
    /\ called = "none"
    /\ \E g \in PatchGroups(patches),
          r \in SeqUpTo(ConflictResolution, MaxResolutions),
          c \in SeqUpTo(CustomConflictResolution, MaxCustom) :
          /\ resolutions' = r
          /\ customResolutions' = c
          /\ generated' = generateResolvedPatch(g, conflicts, r, c)
    /\ called' = "generateResolvedPatch"
    /\ UNCHANGED <<patches, conflicts, merged, defaults>>

InitializeResolutions ==
    /\ called = "none"
    /\ called' = "initializeResolutions"
    /\ defaults' = initializeResolutions(conflicts)
    /\ UNCHANGED <<patches, conflicts, resolutions, customResolutions,
                   merged, generated>>

Next ==
    \/ ResolveConflicts
    \/ GenerateResolvedPatch
    \/ InitializeResolutions

Spec == Init /\ [][Next]_vars

\* ------------------------------------------------- vocabulary of the claims
Resolved == called = "resolveConflicts"

\* The resolution of conflict i: the first entry of resolutions with its path.
IsResolutionOf(j, i) ==
    /\ j \in 1..Len(resolutions)
    /\ resolutions[j].path = conflicts[i].path
    /\ \A k \in 1..(j - 1) : resolutions[k].path # conflicts[i].path

HasResolution(i) == \E j \in 1..Len(resolutions) : IsResolutionOf(j, i)

\* patches[j] is the first patch with hash h
IsFirstWithHash(j, h) ==
    /\ j \in 1..Len(patches)
    /\ patches[j].hash = h
    /\ \A k \in 1..(j - 1) : patches[k].hash # h

HashKnown(h) == \E j \in 1..Len(patches) : patches[j].hash = h

NoDuplicates(s) == \A i, j \in 1..Len(s) : s[i] = s[j] => i = j

\* ---------------------------------------------------------------------- C1
\* C1: in the list resolveConflicts returns, no two entries have the same
\* path.
C1_PathAtMostOnce ==
    Resolved =>
        \A i, j \in 1..Len(merged) : merged[i].path = merged[j].path => i = j

\* ---------------------------------------------------------------------- C4
\* C4: when conflicts is empty, resolveConflicts returns the input patch list
\* unchanged (same patches, order and multiplicity), whatever resolutions and
\* customResolutions are.
C4_PassThrough ==
    (Resolved /\ conflicts = <<>>) => merged = patches

C4_Witness ==
    /\ Resolved
    /\ conflicts = <<>>
    /\ Len(patches) = 2
    /\ patches[1] = patches[2]
    /\ resolutions # <<>>
    /\ customResolutions # <<>>
    /\ merged = patches

\* ---------------------------------------------------------------------- C8
\* C8: initializeResolutions returns, in conflict-list order, exactly one
\* resolution {path, selectedHash: options[0]} for each conflict with
\* non-empty options, and none for a conflict with empty options.
WithOptions(n) == {i \in 1..n : conflicts[i].options # <<>>}

C8_Defaults ==
    called = "initializeResolutions" =>
        /\ Len(defaults) = Cardinality(WithOptions(Len(conflicts)))
        /\ \A i \in WithOptions(Len(conflicts)) :
               defaults[Cardinality(WithOptions(i))] =
                   [path |-> conflicts[i].path,
                    selectedHash |-> conflicts[i].options[1]]

C8_Witness ==
    /\ called = "initializeResolutions"
    /\ Len(conflicts) = 2
    /\ conflicts[1].options = <<>>
    /\ Len(conflicts[2].options) = 2
    /\ Len(defaults) = 1

\* ---------------------------------------------------------------------- C2
Generated == called = "generateResolvedPatch"

AllOptionsUnresolved(i) ==
    \A k \in 1..Len(conflicts[i].options) :
        conflicts[i].options[k] \in Range(generated.unresolvedConflicts)

\* C2 as stated: for every conflict with no entry of resolutions at its path,
\* generateResolvedPatch lists every option hash of the conflict in
\* unresolvedConflicts, for all patch groups.
C2_AllGroups ==
    Generated =>
        \A i \in 1..Len(conflicts) : ~HasResolution(i) => AllOptionsUnresolved(i)

\* C2 amended: the same, provided the patch groups hold at least one patch.
C2_UnresolvedOptions ==
    (Generated /\ patches # <<>>) =>
        \A i \in 1..Len(conflicts) : ~HasResolution(i) => AllOptionsUnresolved(i)

C2_Witness ==
    /\ Generated
    /\ patches # <<>>
    /\ Len(conflicts) = 2
    /\ HasResolution(1)
    /\ ~HasResolution(2)
    /\ Len(conflicts[2].options) = 2
    /\ Len(generated.unresolvedConflicts) = 2

\* ---------------------------------------------------------------------- C3
\* C3 as stated: the list resolveConflicts returns contains the embedded
\* patch of every custom resolution, for all patches, conflicts and
\* resolutions.
C3_Unconditional ==
    Resolved =>
        \A k \in 1..Len(customResolutions) :
            customResolutions[k].patch \in Range(merged)

\* C3 amended: the same, provided conflicts is not empty.
C3_CustomIncluded ==
    (Resolved /\ conflicts # <<>>) =>
        \A k \in 1..Len(customResolutions) :
            customResolutions[k].patch \in Range(merged)

\* a custom resolution next to a patch selected for the same path
C3_Witness ==
    /\ Resolved
    /\ conflicts # <<>>
    /\ customResolutions # <<>>
    /\ \E i \in 1..Len(merged) :
           /\ merged[i].path = customResolutions[1].path
           /\ merged[i] # customResolutions[1].patch
    /\ customResolutions[1].patch \in Range(merged)

\* ---------------------------------------------------------------------- C5
\* Conflict i has options and its resolution is absent or selects a hash that
\* is not among the options.
NeedsDefault(i) ==
    /\ conflicts[i].options # <<>>
    /\ \A j \in 1..Len(resolutions) :
           IsResolutionOf(j, i) =>
               resolutions[j].selectedHash \notin Range(conflicts[i].options)

\* C5: for such a conflict the output of resolveConflicts contains the first
\* patch of the input whose hash is options[0], whenever there is one.
C5_FirstOptionDefault ==
    Resolved =>
        \A i \in 1..Len(conflicts) :
            NeedsDefault(i) =>
                \A j \in 1..Len(patches) :
                    IsFirstWithHash(j, conflicts[i].options[1]) =>
                        patches[j] \in Range(merged)

\* a resolution outside the options, two patches carrying options[0]
C5_Witness ==
    /\ Resolved
    /\ \E i \in 1..Len(conflicts) :
           /\ NeedsDefault(i)
           /\ HasResolution(i)
           /\ IsFirstWithHash(1, conflicts[i].options[1])
           /\ Len(patches) = 2
           /\ patches[2].hash = patches[1].hash
           /\ patches[2] # patches[1]
           /\ patches[1] \in Range(merged)
           /\ patches[2] \notin Range(merged)

\* ---------------------------------------------------------------------- C6
UniqueHashes ==
    \A i, j \in 1..Len(patches) : patches[i].hash = patches[j].hash => i = j

\* every option of every conflict is the hash of a patch at the conflict's path
OptionsAtPath ==
    \A i \in 1..Len(conflicts) :
        \A k \in 1..Len(conflicts[i].options) :
            \E j \in 1..Len(patches) :
                /\ patches[j].hash = conflicts[i].options[k]
                /\ patches[j].path = conflicts[i].path

DistinctConflictPaths ==
    \A i, j \in 1..Len(conflicts) :
        conflicts[i].path = conflicts[j].path => i = j

\* The resolution of conflict i selects one of its options.
ValidlyResolved(i) ==
    \E j \in 1..Len(resolutions) :
        /\ IsResolutionOf(j, i)
        /\ resolutions[j].selectedHash \in Range(conflicts[i].options)

SelectedHash(i) ==
    resolutions[CHOOSE j \in 1..Len(resolutions) : IsResolutionOf(j, i)].selectedHash

\* the output holds exactly one patch at the path of conflict i, the one
\* with the selected hash
OnlySelectedAtPath(i) ==
    /\ \E m \in 1..Len(merged) :
           /\ merged[m].path = conflicts[i].path
           /\ merged[m].hash = SelectedHash(i)
    /\ \A m, n \in 1..Len(merged) :
           (merged[m].path = conflicts[i].path
               /\ merged[n].path = conflicts[i].path) => m = n

Chosen(i) == selectedPatch(patches, conflicts[i], resolutions)

\* the first conflict that chooses patch p
FirstChooser(p) ==
    CHOOSE i \in 1..Len(conflicts) :
        /\ Chosen(i) = <<p>>
        /\ \A k \in 1..(i - 1) : Chosen(k) # <<p>>

InNoConflict(patch) ==
    \A i \in 1..Len(conflicts) : conflicts[i].path # patch.path

\* seg holds every chosen patch once, in the order the conflicts first choose
IsChosenSegment(seg) ==
    /\ NoDuplicates(seg)
    /\ Range(seg) = {p \in Range(patches) :
                        \E i \in 1..Len(conflicts) : Chosen(i) = <<p>>}
    /\ \A x, y \in 1..Len(seg) :
           x < y => FirstChooser(seg[x]) < FirstChooser(seg[y])

C7_WitnessOrder ==
    /\ Resolved
    /\ Len(conflicts) = 2
    /\ Len(patches) = 2
    /\ Chosen(1) = <<patches[2]>>
    /\ Chosen(2) = <<patches[1]>>
    /\ patches[1] # patches[2]
    /\ merged = <<patches[2], patches[1]>>

\* ---------------------------------------------------------------------- C9
\* The resolutions derived from the output: for each conflict, in conflict-list
\* order, the hash of the patch chosen for it; no entry when none was chosen.
RECURSIVE DerivedUpTo(_)
DerivedUpTo(n) ==
    IF n = 0 THEN <<>>
    ELSE IF Chosen(n) = <<>> THEN DerivedUpTo(n - 1)
    ELSE Append(DerivedUpTo(n - 1),
                [path |-> conflicts[n].path, selectedHash |-> Chosen(n)[1].hash])

DerivedResolutions == DerivedUpTo(Len(conflicts))

Rerun ==
    resolveConflicts(patches, conflicts, DerivedResolutions, customResolutions)

\* C9 as stated: running resolveConflicts again with the resolutions derived
\* from its output returns the same list, for all arguments.
C9_Idempotent == Resolved => Rerun = merged

\* A conflict that chose no patch would choose none by default either.
NoLateDefault ==
    \A i \in 1..Len(conflicts) :
        (Chosen(i) = <<>> /\ conflicts[i].options # <<>>) =>
            ~HashKnown(conflicts[i].options[1])

\* C9 amended: the same, provided no two conflicts have the same path and
\* every conflict for which the output holds no patch has no options or a
\* first option that is the hash of no patch.
C9_IdempotentWellFormed ==
    (Resolved /\ DistinctConflictPaths /\ NoLateDefault) => Rerun = merged

\* a default and a selection of a second option are both fed back
C9_Witness ==
    /\ Resolved
    /\ DistinctConflictPaths
    /\ NoLateDefault
    /\ Len(conflicts) = 2
    /\ Len(resolutions) = 1
    /\ Len(DerivedResolutions) = 2
    /\ Len(merged) = 2
    /\ \E i \in 1..2 :
           /\ ValidlyResolved(i)
           /\ Len(conflicts[i].options) = 2
           /\ SelectedHash(i) = conflicts[i].options[2]
    /\ Rerun = merged

\* --------------------------------------------------------------------- C10
\* conflicts without its entry i
Without(i) ==
    SubSeq(conflicts, 1, i - 1) \o SubSeq(conflicts, i + 1, Len(conflicts))

\* the output as it is when conflict i adds nothing to the chosen patches
MergedWithout(i) ==
    nonConflictPatches(patches, conflicts)
        \o includedPatches(patches, Without(i), resolutions)
        \o customPatches(customResolutions)

\* the resolution of conflict i selects a hash that matches no patch
ResolvedToUnknown(i) ==
    \E j \in 1..Len(resolutions) :
        IsResolutionOf(j, i) /\ ~HashKnown(resolutions[j].selectedHash)

\* C10 as stated: a conflict whose resolution selects a hash matching no
\* patch, or whose options are empty, contributes no patch (no fall back to
\* another option), and the rest of the output is unaffected.
C10_BestEffort ==
    Resolved =>
        \A i \in 1..Len(conflicts) :
            (ResolvedToUnknown(i) \/ conflicts[i].options = <<>>) =>
                (Chosen(i) = <<>> /\ merged = MergedWithout(i))

\* C10 amended: the same, where the selected hash matching no patch is one of
\* the conflict's options.
C10_BestEffortAmongOptions ==
    Resolved =>
        \A i \in 1..Len(conflicts) :
            ((ResolvedToUnknown(i) /\ ValidlyResolved(i))
                \/ conflicts[i].options = <<>>) =>
                (Chosen(i) = <<>> /\ merged = MergedWithout(i))

\* the selected second option matches no patch, the first option matches one
\* and is left out; the other conflict has no options
C10_Witness ==
    /\ Resolved
    /\ Len(conflicts) = 2
    /\ ResolvedToUnknown(1)
    /\ ValidlyResolved(1)
    /\ HashKnown(conflicts[1].options[1])
    /\ conflicts[2].options = <<>>
    /\ patches # <<>>
    /\ \A m \in 1..Len(merged) : merged[m].hash # conflicts[1].options[1]
    /\ Chosen(1) = <<>>
    /\ merged = MergedWithout(1)

====
